---- MODULE Spec2Model ----
(***************************************************************************)
(* Model of src/src/safety_controller.py (class SafetyController).         *)
(*                                                                         *)
(* Two callbacks share the controller object: on_drive_command and         *)
(* on_lidar_scan.  They are registered on two different subscriptions      *)
(* (lines 37 and 40), so each one runs in the receive thread of its own    *)
(* topic: a callback never overlaps with itself, but the two callbacks     *)
(* interleave at every access of the shared attributes last_drive_command  *)
(* and last_drive_speed.  Each action below is one stretch of a callback   *)
(* between two accesses of shared state.                                   *)
(*                                                                         *)
(* Units: distances are whole millimetres, speeds are whole decimetres per *)
(* second (so that the stop speed -0.1 m/s is the integer -1), angles are  *)
(* whole multiples of an angular unit.  A range sample is a record so that *)
(* the IEEE values inf and nan are kept apart from the real distances.     *)
(***************************************************************************)
EXTENDS Integers, Sequences, FiniteSets, TLC

(* ---------------------------- bounds ----------------------------------- *)

\* longest sweep (number of range samples) delivered by the sensor
MaxLen == 3

\* real distances (mm) that occur in a sweep: below every threshold, exactly
\* on and just above the threshold of 1 m/s
RealDistances == {100, 417, 418}

\* tracked speeds (dm/s) carried by drive commands: reversing, stopped, 1 m/s, 2 m/s
Speeds == {-10, 0, 10, 20}

\* significand width of the floating-point format of the angles (53 in the
\* program; the model rounds the same way at a width it can enumerate)
MantissaBits == 3

AngleMins == {-24}
AngleIncrements == {5}

\* settings of the parameters scan_starting_index and scan_ending_index
WindowConfigs == {<<1, 3>>, <<2, 3>>, <<2, 1>>, <<-1, 3>>}

(* ------------------------- float samples ------------------------------- *)

Real(d) == [kind |-> "real", mm |-> d]
INF == [kind |-> "inf", mm |-> 0]
NAN == [kind |-> "nan", mm |-> 0]

Samples == {Real(d) : d \in RealDistances} \cup {INF, NAN}

\* IEEE comparison x <= y: false as soon as one side is nan
FloatLe(x, y) ==
    IF x.kind = "nan" \/ y.kind = "nan" THEN FALSE
    ELSE IF y.kind = "inf" THEN TRUE
    ELSE IF x.kind = "inf" THEN FALSE
    ELSE x.mm <= y.mm

\* IEEE comparison x < y
FloatLt(x, y) ==
    IF x.kind = "nan" \/ y.kind = "nan" THEN FALSE
    ELSE IF x.kind = "inf" THEN FALSE
    ELSE IF y.kind = "inf" THEN TRUE
    ELSE x.mm < y.mm

\* numpy.minimum of two values: nan propagates
FloatMin2(x, y) ==
    IF x.kind = "nan" \/ y.kind = "nan" THEN NAN
    ELSE IF FloatLe(x, y) THEN x ELSE y

\* np.min over a non-empty sequence (line 79)
RECURSIVE NpMin(_)
NpMin(s) ==
    IF Len(s) = 1 THEN s[1]
    ELSE FloatMin2(s[1], NpMin(Tail(s)))

\* number of low bits a magnitude n loses to fit the significand
RECURSIVE LostBits(_)
LostBits(n) == IF n < 2 ^ MantissaBits THEN 0 ELSE 1 + LostBits(n \div 2)

\* round a magnitude to the nearest representable value, ties to even
RoundMagnitude(n) ==
    LET k == LostBits(n)
        q == n \div (2 ^ k)
        r == n % (2 ^ k)
    IN  IF k = 0 THEN n
        ELSE IF 2 * r > 2 ^ k \/ (2 * r = 2 ^ k /\ q % 2 = 1)
             THEN (q + 1) * 2 ^ k
             ELSE q * 2 ^ k

\* the float nearest to x: every float operation of lines 100-101 rounds its result
Fl(x) == IF x < 0 THEN 0 - RoundMagnitude(0 - x) ELSE RoundMagnitude(x)

(* ----------------------- configuration --------------------------------- *)

\* INTERCEPT = 0 (m), in mm
INTERCEPT == 0
\* MULTIPLIER = 0.2335 m = 467/2 mm
MULTIPLIER_NUM == 467
MULTIPLIER_DEN == 2
\* EXPONENT = 1.787 = 1787/1000
EXPONENT_NUM == 1787
EXPONENT_DEN == 1000
\* TESTING_VELOCITY = 2 m/s, in dm/s
TESTING_VELOCITY == 20
\* a default that assumes the vehicle is stationary (1 m/s below the default)
DEFAULT_DRIVE_SPEED_Stationary == 10 - 10
\* last_drive_speed = 1 (m/s, line 33), in dm/s
DEFAULT_DRIVE_SPEED == 10
\* car_action.speed = -0.1 m/s, in dm/s
STOP_SPEED == -1

\* defaults of scan_starting_index and scan_ending_index (lines 21-22)
SCAN_STARTING_INDEX == 460
SCAN_ENDING_INDEX == 620

\* INTERCEPT + MULTIPLIER*(EXPONENT)**speed (line 88), rounded down to whole
\* mm: a distance of whole mm is <= the real threshold iff it is <= its floor.
\* speed is a whole number of m/s given in dm/s.
Threshold(speed) ==
    LET e == speed \div 10
    IN  IF e >= 0
        THEN Real(INTERCEPT + (MULTIPLIER_NUM * EXPONENT_NUM ^ e) \div (MULTIPLIER_DEN * EXPONENT_DEN ^ e))
        ELSE Real(INTERCEPT + (MULTIPLIER_NUM * EXPONENT_DEN ^ (0 - e)) \div (MULTIPLIER_DEN * EXPONENT_NUM ^ (0 - e)))

(* --------------------------- messages ---------------------------------- *)

\* a drive message as seen by the guard of line 59
DriveCmd(s) == [is_none |-> FALSE, speed_is_none |-> FALSE, speed |-> s]
NoneCmd == [is_none |-> TRUE, speed_is_none |-> TRUE, speed |-> 0]
NoSpeedCmd == [is_none |-> FALSE, speed_is_none |-> TRUE, speed |-> 0]

DriveMessages == {DriveCmd(s) : s \in Speeds} \cup {NoneCmd, NoSpeedCmd}

\* python slice s[a:b] of a sequence (0-based, negative indices from the end,
\* clipped to the sequence)
PySlice(s, a, b) ==
    LET n == Len(s)
        lo0 == IF a < 0 THEN a + n ELSE a
        hi0 == IF b < 0 THEN b + n ELSE b
        lo == IF lo0 < 0 THEN 0 ELSE IF lo0 > n THEN n ELSE lo0
        hi == IF hi0 < 0 THEN 0 ELSE IF hi0 > n THEN n ELSE hi0
    IN  IF lo >= hi THEN << >> ELSE SubSeq(s, lo + 1, hi)

SeqsUpTo(S, n) == UNION {[1..k -> S] : k \in 0..n}

\* sweeps as the sensor driver delivers them
Frames ==
    {[ranges |-> r, angle_min |-> a, angle_increment |-> i,
      angle_max |-> Fl(a + Fl(i * (Len(r) - 1)))] :
        r \in SeqsUpTo(Samples, MaxLen), a \in AngleMins, i \in AngleIncrements}

NoFrame == [ranges |-> << >>, angle_min |-> 0, angle_increment |-> 0, angle_max |-> 0]

\* the frame object was not handled before
NotHandled == [handled |-> FALSE, raised |-> FALSE, min |-> INF, reads |-> << >>, brake |-> FALSE]

(* ------------------------ parameter server ----------------------------- *)

Unset == [set |-> FALSE, value |-> 0]
Set(v) == [set |-> TRUE, value |-> v]

\* a ratio of two integers
Ratio(n, d) == [num |-> n, den |-> d]

\* the parameter servers the module may be loaded under: one field per key
\* (without the prefix safety_controller/); "exponent" is a key of the
\* server that the controller never reads
ParamServers ==
    [scan_starting_index : {Unset} \cup {Set(w[1]) : w \in WindowConfigs},
     scan_ending_index : {Unset} \cup {Set(w[2]) : w \in WindowConfigs},
     intercept : {Unset, Set(50)},
     danger_threshold : {Unset, Set(Ratio(1, 2)), Set(Ratio(3, 2))},
     exponent : {Unset, Set(Ratio(2, 1))},
     velocity : {Unset, Set(10)},
     is_testing : {Unset, Set(TRUE), Set(FALSE)}]

\* rospy.get_param(name, default)
get_param(ps, key, default) == IF ps[key].set THEN ps[key].value ELSE default

\* a key of its own for the exponent
EXPONENT_KEY_Own == "exponent"
\* the key EXPONENT is read from (line 25)
EXPONENT_KEY == "danger_threshold"

\* the class body, lines 21-29: the class attributes as loaded from a server
ClassAttributes(ps) ==
    [SCAN_STARTING_INDEX |-> get_param(ps, "scan_starting_index", SCAN_STARTING_INDEX),
     SCAN_ENDING_INDEX |-> get_param(ps, "scan_ending_index", SCAN_ENDING_INDEX),
     INTERCEPT |-> get_param(ps, "intercept", INTERCEPT),
     MULTIPLIER |-> get_param(ps, "danger_threshold", Ratio(MULTIPLIER_NUM, 1000 * MULTIPLIER_DEN)),
     EXPONENT |-> get_param(ps, EXPONENT_KEY, Ratio(EXPONENT_NUM, EXPONENT_DEN)),
     TESTING_VELOCITY |-> get_param(ps, "velocity", TESTING_VELOCITY),
     IS_TESTING |-> get_param(ps, "is_testing", FALSE)]

\* nothing is loaded before the class body has run
NoAttributes ==
    [SCAN_STARTING_INDEX |-> 0, SCAN_ENDING_INDEX |-> 0, INTERCEPT |-> 0,
     MULTIPLIER |-> Ratio(0, 1), EXPONENT |-> Ratio(0, 1), TESTING_VELOCITY |-> 0,
     IS_TESTING |-> FALSE]

\* the servers under which the sweeps are modelled: the threshold curve and
\* the test velocity keep their defaults, the window is a WindowConfigs
\* setting or the default, the test flag is set either way
SweepServers ==
    {ps \in ParamServers :
        /\ ~ps.intercept.set /\ ~ps.danger_threshold.set
        /\ ~ps.exponent.set /\ ~ps.velocity.set
        /\ ps.is_testing.set
        /\ \/ ~ps.scan_starting_index.set /\ ~ps.scan_ending_index.set
           \/ \E w \in WindowConfigs : /\ ps.scan_starting_index = Set(w[1])
                                       /\ ps.scan_ending_index = Set(w[2])}

(* ---------------------------- state ------------------------------------ *)

VARIABLES
    param_server,        \* the parameter server at the time the module is loaded
    p_pc,                \* "import" before the class body has run, "loaded" after
    class_attrs,         \* the class attributes of lines 21-29
    scan_start,          \* SCAN_STARTING_INDEX
    scan_end,            \* SCAN_ENDING_INDEX
    is_testing,          \* IS_TESTING
    last_drive_command,  \* self.last_drive_command
    last_drive_speed,    \* self.last_drive_speed
    d_pc,                \* position of on_drive_command
    drive_command,       \* argument of the running on_drive_command (NoneCmd when none runs)
    completed_speed,     \* history: speed of the last drive message with a defined speed whose callback returned
    s_pc,                \* position of on_lidar_scan
    lidar_data,          \* the frame object handed to on_lidar_scan
    min,                 \* local min of on_lidar_scan
    speed_reads,         \* values loaded from self.last_drive_speed by this invocation
    published,           \* messages published by this invocation, in order
    prev_override,       \* whether the previous invocation published a stop
    handled_before       \* history: outcome of the previous invocation when it was handed this same frame object

vars == <<param_server, p_pc, class_attrs, scan_start, scan_end, is_testing, last_drive_command, last_drive_speed,
          d_pc, drive_command, completed_speed, s_pc, lidar_data, min,
          speed_reads, published, prev_override, handled_before>>

config_vars == <<param_server, p_pc, class_attrs, scan_start, scan_end, is_testing>>
drive_vars == <<last_drive_command, last_drive_speed, d_pc, drive_command, completed_speed>>
scan_vars == <<s_pc, lidar_data, min, speed_reads, published, prev_override, handled_before>>

\* the callbacks' state of a freshly constructed controller (lines 32-33)
InitController ==
    /\ last_drive_command = NoneCmd
    /\ last_drive_speed = DEFAULT_DRIVE_SPEED
    /\ d_pc = "idle"
    /\ drive_command = NoneCmd
    /\ completed_speed = DEFAULT_DRIVE_SPEED
    /\ s_pc = "idle"
    /\ lidar_data = NoFrame
    /\ min = INF
    /\ speed_reads = << >>
    /\ published = << >>
    /\ prev_override = FALSE
    /\ handled_before = NotHandled

\* the module is about to be loaded under some parameter server
ParamInit ==
    /\ param_server \in ParamServers
    /\ p_pc = "import"
    /\ class_attrs = NoAttributes
    /\ scan_start = 0
    /\ scan_end = 0
    /\ is_testing = FALSE
    /\ InitController

\* the class body runs (lines 17-29)
LoadParameters ==
    /\ p_pc = "import"
    /\ p_pc' = "loaded"
    /\ class_attrs' = ClassAttributes(param_server)
    /\ scan_start' = class_attrs'.SCAN_STARTING_INDEX
    /\ scan_end' = class_attrs'.SCAN_ENDING_INDEX
    /\ is_testing' = class_attrs'.IS_TESTING
    /\ UNCHANGED param_server
    /\ UNCHANGED drive_vars
    /\ UNCHANGED scan_vars

ParamNext == LoadParameters

\* loading of the parameters on its own
ParamSpec == ParamInit /\ [][ParamNext]_vars

\* the controller is constructed after its class body has run
Init ==
    /\ param_server \in SweepServers
    /\ p_pc = "loaded"
    /\ class_attrs = ClassAttributes(param_server)
    /\ scan_start = class_attrs.SCAN_STARTING_INDEX
    /\ scan_end = class_attrs.SCAN_ENDING_INDEX
    /\ is_testing = class_attrs.IS_TESTING
    /\ InitController

(* ------------------------ on_drive_command ----------------------------- *)

\* the message carries a speed
HasDefinedSpeed(cmd) == ~cmd.is_none /\ ~cmd.speed_is_none

\* a guard that tests the truth value of the speed instead of `!= None`
DriveGuard_Truthy(cmd) == ~cmd.is_none /\ ~cmd.speed_is_none /\ cmd.speed # 0

\* guard of line 59
DriveGuard(cmd) == ~cmd.is_none /\ ~cmd.speed_is_none

\* a message arrives; the guard of line 59 is evaluated on the argument
OnDriveCommand(cmd) ==
    /\ d_pc = "idle"
    /\ IF DriveGuard(cmd)
       THEN /\ drive_command' = cmd
            /\ d_pc' = "set_command"
            /\ completed_speed' = completed_speed
       ELSE /\ drive_command' = NoneCmd
            /\ d_pc' = "idle"
            /\ completed_speed' = IF HasDefinedSpeed(cmd) THEN cmd.speed ELSE completed_speed
    /\ UNCHANGED <<last_drive_command, last_drive_speed>>
    /\ UNCHANGED config_vars
    /\ UNCHANGED scan_vars

\* line 60
DriveSetCommand ==
    /\ d_pc = "set_command"
    /\ last_drive_command' = drive_command
    /\ d_pc' = "set_speed"
    /\ UNCHANGED <<last_drive_speed, drive_command, completed_speed>>
    /\ UNCHANGED config_vars
    /\ UNCHANGED scan_vars

\* line 61 followed by a publication of the stored speed
DriveSetSpeed_Echo ==
    /\ d_pc = "set_speed"
    /\ last_drive_speed' = drive_command.speed
    /\ completed_speed' = drive_command.speed
    /\ d_pc' = "idle"
    /\ drive_command' = NoneCmd
    /\ published' = Append(published, [chan |-> "data_logger", msg |-> Real(100)])
    /\ UNCHANGED last_drive_command
    /\ UNCHANGED config_vars
    /\ UNCHANGED <<s_pc, lidar_data, min, speed_reads, prev_override, handled_before>>

\* line 61, then return
DriveSetSpeed ==
    /\ d_pc = "set_speed"
    /\ last_drive_speed' = drive_command.speed
    /\ completed_speed' = drive_command.speed
    /\ d_pc' = "idle"
    /\ drive_command' = NoneCmd
    /\ UNCHANGED last_drive_command
    /\ UNCHANGED config_vars
    /\ UNCHANGED scan_vars

(* -------------------------- on_lidar_scan ------------------------------ *)

\* a window function that returns its argument as it is
get_collision_zone_data_Pure(f) == f

\* the upper bound taken at index end instead of end - 1
get_collision_zone_data_OffByOne(f) ==
    [ranges |-> PySlice(f.ranges, scan_start, scan_end),
     angle_min |-> Fl(f.angle_min + Fl(f.angle_increment * Fl(scan_start))),
     angle_max |-> Fl(f.angle_min + Fl(f.angle_increment * Fl(scan_end))),
     angle_increment |-> f.angle_increment]

\* get_collision_zone_data: the frame object itself is rewritten
get_collision_zone_data(f) ==
    [ranges |-> PySlice(f.ranges, scan_start, scan_end),
     angle_min |-> Fl(f.angle_min + Fl(f.angle_increment * Fl(scan_start))),
     angle_max |-> Fl(f.angle_min + Fl(f.angle_increment * Fl(scan_end - 1))),
     angle_increment |-> f.angle_increment]

\* header.frame_id and the drive fields; header.stamp is the wall clock and
\* is left out
AckermannMsg(v) ==
    [frame_id |-> "world", steering_angle |-> 0, steering_angle_velocity |-> 0,
     speed |-> v, acceleration |-> 0, jerk |-> 0]

\* what stop_car publishes
stop_car == <<[chan |-> "car_publisher", msg |-> AckermannMsg(STOP_SPEED)]>>

\* drive_car publishing on the override channel
drive_car_OverrideChannel == <<[chan |-> "car_publisher", msg |-> AckermannMsg(TESTING_VELOCITY)]>>

\* what drive_car publishes
drive_car == <<[chan |-> "car_testing_publisher", msg |-> AckermannMsg(TESTING_VELOCITY)]>>

Overrides(log) == SelectSeq(log, LAMBDA m : m.chan = "car_publisher")

\* the transport delivers a sweep: on_lidar_scan is entered with a fresh
\* frame object (line 64)
ScanDeliver(frame) ==
    /\ s_pc \in {"idle", "done", "failed"}
    /\ s_pc' = "received"
    /\ lidar_data' = frame
    /\ prev_override' = (Len(Overrides(published)) > 0)
    /\ handled_before' = NotHandled
    /\ speed_reads' = << >>
    /\ published' = << >>
    /\ min' = INF
    /\ UNCHANGED config_vars
    /\ UNCHANGED drive_vars

\* the caller hands the frame object of the previous invocation to
\* on_lidar_scan again (line 64)
ScanRedeliver ==
    /\ s_pc \in {"done", "failed"}
    /\ s_pc' = "received"
    /\ lidar_data' = lidar_data
    /\ prev_override' = (Len(Overrides(published)) > 0)
    /\ handled_before' = [handled |-> TRUE, raised |-> (s_pc = "failed"), min |-> min,
                          reads |-> speed_reads, brake |-> (Len(Overrides(published)) > 0)]
    /\ speed_reads' = << >>
    /\ published' = << >>
    /\ min' = INF
    /\ UNCHANGED config_vars
    /\ UNCHANGED drive_vars

\* lines 83-85, without the call of drive_car
TestOutput_NoDrive(m) ==
    IF is_testing THEN <<[chan |-> "data_logger", msg |-> m]>> ELSE << >>

\* lines 83-85: what the test-mode block publishes
TestOutput(m) ==
    IF is_testing THEN <<[chan |-> "data_logger", msg |-> m]>> \o drive_car ELSE << >>

\* lines 71-85: window, projection, min, test-mode output.  np.min raises
\* ValueError on an empty window: the callback ends there.
OnLidarScan ==
    /\ s_pc = "received"
    /\ lidar_data' = get_collision_zone_data(lidar_data)
    /\ LET zone == lidar_data'.ranges
           projection == <<[chan |-> "laser_projection", msg |-> zone]>>
       IN  IF Len(zone) = 0
           THEN /\ s_pc' = "failed"
                /\ min' = INF
                /\ published' = projection
           ELSE /\ s_pc' = "gate"
                /\ min' = NpMin(zone)
                /\ published' = projection \o TestOutput(min')
    /\ UNCHANGED <<speed_reads, prev_override, handled_before>>
    /\ UNCHANGED config_vars
    /\ UNCHANGED drive_vars

\* a gate that only excludes the stopped vehicle
SpeedGate_NonZero(speed) == speed # 0

\* self.last_drive_speed > 0 (line 88)
SpeedGate(speed) == speed > 0

\* line 88, left operand of `and`
ScanGate ==
    /\ s_pc = "gate"
    /\ speed_reads' = <<last_drive_speed>>
    /\ s_pc' = IF SpeedGate(last_drive_speed) THEN "threshold" ELSE "done"
    /\ UNCHANGED <<lidar_data, min, published, prev_override, handled_before>>
    /\ UNCHANGED config_vars
    /\ UNCHANGED drive_vars

\* the comparison written with `<`
Danger_Strict(m, speed) == FloatLt(m, Threshold(speed))

\* the comparison written the wrong way round
Danger_Flipped(m, speed) == FloatLe(Threshold(speed), m)

\* the comparison written as `not min > threshold`
Danger_NotGreater(m, speed) == ~FloatLt(Threshold(speed), m)

\* min <= INTERCEPT + MULTIPLIER*(EXPONENT)**speed (line 88)
Danger(m, speed) == FloatLe(m, Threshold(speed))

\* a stop that stays latched once a sweep has braked
ScanThreshold_Latched ==
    /\ s_pc = "threshold"
    /\ speed_reads' = Append(speed_reads, last_drive_speed)
    /\ published' = IF Danger(min, last_drive_speed) \/ prev_override
                    THEN published \o stop_car
                    ELSE published
    /\ s_pc' = "done"
    /\ UNCHANGED <<lidar_data, min, prev_override, handled_before>>
    /\ UNCHANGED config_vars
    /\ UNCHANGED drive_vars

\* line 88, right operand of `and`, and lines 89-90
ScanThreshold ==
    /\ s_pc = "threshold"
    /\ speed_reads' = Append(speed_reads, last_drive_speed)
    /\ published' = IF Danger(min, last_drive_speed)
                    THEN published \o stop_car
                    ELSE published
    /\ s_pc' = "done"
    /\ UNCHANGED <<lidar_data, min, prev_override, handled_before>>
    /\ UNCHANGED config_vars
    /\ UNCHANGED drive_vars

Next ==
    \/ \E cmd \in DriveMessages : OnDriveCommand(cmd)
    \/ DriveSetCommand
    \/ DriveSetSpeed
    \/ \E frame \in Frames : ScanDeliver(frame)
    \/ OnLidarScan
    \/ ScanGate
    \/ ScanThreshold

Spec == Init /\ [][Next]_vars

\* one frame object handed to on_lidar_scan again and again with no drive
\* update in between: the drive commands all come before the first sweep
RehandleNext ==
    \/ /\ s_pc = "idle"
       /\ \E cmd \in DriveMessages : OnDriveCommand(cmd)
    \/ /\ s_pc = "idle"
       /\ DriveSetCommand
    \/ /\ s_pc = "idle"
       /\ DriveSetSpeed
    \/ /\ s_pc = "idle"
       /\ d_pc = "idle"
       /\ \E frame \in Frames : ScanDeliver(frame)
    \/ ScanRedeliver
    \/ OnLidarScan
    \/ ScanGate
    \/ ScanThreshold

RehandleSpec == Init /\ [][RehandleNext]_vars

(* ------------------------ properties ----------------------------------- *)

\* d mm is at most INTERCEPT + MULTIPLIER * EXPONENT^speed, compared exactly
\* by cross-multiplication of the rationals
WithinMargin(d, speed) ==
    LET e == speed \div 10
    IN  IF e >= 0
        THEN (d - INTERCEPT) * MULTIPLIER_DEN * EXPONENT_DEN ^ e <= MULTIPLIER_NUM * EXPONENT_NUM ^ e
        ELSE (d - INTERCEPT) * MULTIPLIER_DEN * EXPONENT_NUM ^ (0 - e) <= MULTIPLIER_NUM * EXPONENT_DEN ^ (0 - e)

Window == lidar_data.ranges
SweepDone == s_pc = "done"
GateSpeed == speed_reads[1]
ThresholdSpeed == speed_reads[2]
GatePassed == Len(speed_reads) = 2 /\ GateSpeed > 0
StopEmitted == Overrides(published) = <<[chan |-> "car_publisher", msg |-> AckermannMsg(STOP_SPEED)]>>
NoOverride == Overrides(published) = << >>
HasReal(w) == \E i \in DOMAIN w : w[i].kind = "real"
HasNan(w) == \E i \in DOMAIN w : w[i].kind = "nan"
AllSentinel(w) == \A i \in DOMAIN w : w[i].kind # "real"
RealWithin(w, speed) == \E i \in DOMAIN w : w[i].kind = "real" /\ WithinMargin(w[i].mm, speed)

\* C1: a completed sweep whose speed gate read a positive tracked speed and
\* whose minimum clearance is a distance at most INTERCEPT + MULTIPLIER *
\* EXPONENT^(tracked speed) has published exactly one stop command, with
\* speed -0.1 m/s, on the override channel.
C1_BrakeWithinMargin ==
    (SweepDone /\ GatePassed /\ min.kind = "real" /\ WithinMargin(min.mm, ThresholdSpeed))
        => (StopEmitted /\ Overrides(published)[1].msg.speed = STOP_SPEED)

C1_Witness ==
    /\ SweepDone /\ GatePassed /\ GateSpeed = 20 /\ ThresholdSpeed = 20
    /\ min = Real(418) /\ StopEmitted

\* C2: a sweep whose speed gate read a tracked speed <= 0 publishes no
\* override, whatever its minimum clearance and whatever came before.
C2_NoBrakeWhenNotForward ==
    (Len(speed_reads) >= 1 /\ GateSpeed <= 0) => NoOverride

C2_Witness ==
    /\ SweepDone /\ speed_reads = <<-10>> /\ min = Real(100)
    /\ prev_override /\ ~last_drive_command.is_none /\ NoOverride

\* C3: a completed sweep with a positive tracked speed whose minimum
\* clearance is strictly greater than the threshold publishes nothing on the
\* override channel.
C3_NoBrakeBeyondMargin ==
    (SweepDone /\ GatePassed
        /\ (min.kind = "inf" \/ (min.kind = "real" /\ ~WithinMargin(min.mm, ThresholdSpeed))))
        => NoOverride

C3_Witness ==
    /\ SweepDone /\ GatePassed /\ GateSpeed = 10 /\ ThresholdSpeed = 10
    /\ min = Real(418) /\ NoOverride

\* C4: sentinels never hide a real sample: a completed sweep with a positive
\* tracked speed whose window holds a real sample at or below the threshold
\* has published an override, whatever sentinels the window also holds.
C4_SentinelsIgnored ==
    (SweepDone /\ GatePassed /\ RealWithin(Window, ThresholdSpeed)) => StopEmitted

\* C5: a sweep whose window holds only sentinels computes no distance as its
\* minimum clearance and publishes no override, also for a positive tracked
\* speed.
C5_AllSentinelNoBrake ==
    (s_pc \in {"gate", "threshold", "done"} /\ AllSentinel(Window))
        => (min.kind # "real" /\ NoOverride)

C5_Witness ==
    /\ SweepDone /\ GatePassed /\ GateSpeed = 20 /\ ThresholdSpeed = 20
    /\ Len(Window) = 2 /\ AllSentinel(Window) /\ HasNan(Window) /\ NoOverride

\* C6: as long as no drive command has been recorded the tracked speed is
\* the strictly positive default, and a sweep completed in that situation
\* with a minimum clearance within the default speed's threshold has
\* published an override.
C6_ArmedByDefault ==
    last_drive_command.is_none =>
        /\ last_drive_speed > 0
        /\ (SweepDone /\ min.kind = "real" /\ WithinMargin(min.mm, DEFAULT_DRIVE_SPEED))
              => StopEmitted

C6_Witness ==
    /\ SweepDone /\ last_drive_command.is_none /\ ~prev_override
    /\ min = Real(417) /\ StopEmitted

\* C7: all the reads of the tracked speed made by one invocation of
\* on_lidar_scan return the same value (the gate and the threshold use one
\* snapshot).
C7_SingleSnapshot ==
    \A i, j \in DOMAIN speed_reads : speed_reads[i] = speed_reads[j]

\* C8: whenever last_drive_command is set, last_drive_speed is the speed of
\* that command.
C8_AtomicReplace ==
    ~last_drive_command.is_none => last_drive_speed = last_drive_command.speed

\* C9: every read of the tracked speed by a sweep returns the speed of the
\* most recent drive message with a defined speed whose callback has
\* returned (the default when there is none).
C9_LatestSpeedUsed ==
    [][Len(speed_reads') > Len(speed_reads)
        => speed_reads'[Len(speed_reads')] = completed_speed]_vars

C9_Witness ==
    /\ SweepDone /\ speed_reads = <<20, 20>> /\ completed_speed = 20
    /\ last_drive_command = DriveCmd(20) /\ d_pc = "idle"

\* C10: a sweep publishes at most one message on the override channel, and
\* whether it publishes one is decided by its own window and the tracked
\* speed it read, whether or not the previous sweep braked.
C10_NoPersistence ==
    /\ Len(Overrides(published)) <= 1
    /\ SweepDone =>
          (StopEmitted <=>
              (GatePassed /\ ~HasNan(Window) /\ RealWithin(Window, ThresholdSpeed)))
    /\ SweepDone => (NoOverride <=> ~StopEmitted)

C10_Witness ==
    /\ SweepDone /\ prev_override /\ GatePassed /\ GateSpeed = 10 /\ ThresholdSpeed = 10
    /\ min = Real(418) /\ published = <<[chan |-> "laser_projection", msg |-> Window]>>

OnChannel(log, c) == SelectSeq(log, LAMBDA m : m.chan = c)
SweepEnded == s_pc \in {"done", "failed"}
ValidWindow(f) == 0 <= scan_start /\ scan_start < scan_end /\ scan_end <= Len(f.ranges)
\* the step of get_collision_zone_data
Windowing == s_pc = "received" /\ s_pc' # "received"

\* C11: in test mode every handled sweep has published exactly one
\* diagnostic drive command with speed TESTING_VELOCITY and exactly one
\* telemetry value, the minimum clearance; with test mode off it has
\* published neither.
C11_TestModeOutput ==
    SweepEnded =>
        IF is_testing
        THEN /\ OnChannel(published, "car_testing_publisher")
                    = <<[chan |-> "car_testing_publisher", msg |-> AckermannMsg(TESTING_VELOCITY)]>>
             /\ Len(OnChannel(published, "data_logger")) = 1
             /\ OnChannel(published, "data_logger")[1].msg = min
        ELSE /\ OnChannel(published, "car_testing_publisher") = << >>
             /\ OnChannel(published, "data_logger") = << >>

\* C12: every message on the override channel is the stop command (speed
\* -0.1 m/s, every other drive field zero), and every message on the
\* test-only channel is the forward-drive command, never the stop.
C12_ChannelsKeptApart ==
    \A i \in DOMAIN published :
        /\ published[i].chan = "car_publisher" =>
              /\ published[i].msg.speed = STOP_SPEED
              /\ published[i].msg.steering_angle = 0
              /\ published[i].msg.steering_angle_velocity = 0
              /\ published[i].msg.acceleration = 0
              /\ published[i].msg.jerk = 0
        /\ published[i].chan = "car_testing_publisher" =>
              /\ published[i].msg.speed = TESTING_VELOCITY
              /\ published[i].msg.speed # STOP_SPEED

C12_Witness ==
    /\ SweepDone /\ is_testing /\ StopEmitted /\ min = Real(100)
    /\ Len(OnChannel(published, "car_testing_publisher")) = 1

\* C13 as stated: for a valid window the frame gets ranges[start:end] with
\* end - start samples, angle_min + angle_increment*start and angle_min +
\* angle_increment*(end-1) as computed in floating point, the same
\* angle_increment, and angle_max' - angle_min' == angle_increment *
\* (end - start - 1).
C13_WindowIdentity ==
    [][(Windowing /\ ValidWindow(lidar_data)) =>
          /\ lidar_data'.ranges = [k \in 1..(scan_end - scan_start) |-> lidar_data.ranges[scan_start + k]]
          /\ lidar_data'.angle_min = Fl(lidar_data.angle_min + Fl(lidar_data.angle_increment * scan_start))
          /\ lidar_data'.angle_max = Fl(lidar_data.angle_min + Fl(lidar_data.angle_increment * (scan_end - 1)))
          /\ lidar_data'.angle_increment = lidar_data.angle_increment
          /\ Fl(lidar_data'.angle_max - lidar_data'.angle_min)
                = Fl(lidar_data.angle_increment * (scan_end - scan_start - 1))]_vars

\* C13 as amended: the same fields, and the difference of the new bounds is
\* angle_increment * (end - start - 1) when neither bound was rounded.
C13_WindowFields ==
    [][(Windowing /\ ValidWindow(lidar_data)) =>
          /\ lidar_data'.ranges = [k \in 1..(scan_end - scan_start) |-> lidar_data.ranges[scan_start + k]]
          /\ Len(lidar_data'.ranges) = scan_end - scan_start
          /\ lidar_data'.angle_min = Fl(lidar_data.angle_min + Fl(lidar_data.angle_increment * scan_start))
          /\ lidar_data'.angle_max = Fl(lidar_data.angle_min + Fl(lidar_data.angle_increment * (scan_end - 1)))
          /\ lidar_data'.angle_increment = lidar_data.angle_increment
          /\ (/\ lidar_data'.angle_min = lidar_data.angle_min + lidar_data.angle_increment * scan_start
              /\ lidar_data'.angle_max = lidar_data.angle_min + lidar_data.angle_increment * (scan_end - 1))
                => lidar_data'.angle_max - lidar_data'.angle_min
                      = lidar_data.angle_increment * (scan_end - scan_start - 1)]_vars

C13_Witness ==
    /\ s_pc = "gate" /\ scan_start = 1 /\ scan_end = 3 /\ Len(Window) = 2
    /\ lidar_data.angle_max - lidar_data.angle_min # lidar_data.angle_increment

\* C14: when a frame is handled a second time with the same tracked speed,
\* the second handling ends as the first did, with the same minimum
\* clearance and the same brake decision.
C14_Idempotent ==
    (SweepEnded /\ handled_before.handled) =>
        /\ handled_before.raised = (s_pc = "failed")
        /\ handled_before.min = min
        /\ handled_before.brake = (Len(Overrides(published)) > 0)

C16_EmptyWindowTolerated ==
    (s_pc \in {"gate", "threshold", "done", "failed"} /\ Len(Window) = 0) =>
        (s_pc # "failed" /\ min = INF /\ NoOverride)

\* C17: under a window configuration that violates 0 <= start < end the
\* controller never windows a sweep and never publishes anything.
C17_InvalidWindowRejected ==
    ~(0 <= scan_start /\ scan_start < scan_end) =>
        (s_pc \in {"idle", "received"} /\ published = << >>)

\* C18: a step of on_drive_command publishes nothing and changes nothing but
\* the drive callback's own state, last_drive_command and last_drive_speed.
C18_DriveUpdateSilent ==
    [][(\/ d_pc' # d_pc
        \/ drive_command' # drive_command
        \/ last_drive_command' # last_drive_command
        \/ last_drive_speed' # last_drive_speed)
          => /\ published' = published
             /\ UNCHANGED <<s_pc, lidar_data, min, speed_reads, prev_override>>
             /\ UNCHANGED <<scan_start, scan_end, is_testing, class_attrs>>]_vars

C18_Witness ==
    /\ s_pc = "threshold" /\ published # << >>
    /\ d_pc = "idle" /\ last_drive_command = DriveCmd(-10) /\ last_drive_speed = -10

\* C19: once the class body has run, MULTIPLIER and EXPONENT are both the
\* value of the key danger_threshold when it is set, whatever the rest of
\* the server holds; they are the distinct defaults 0.2335 and 1.787 when it
\* is not.
C19_SharedKey ==
    p_pc = "loaded" =>
        IF param_server.danger_threshold.set
        THEN /\ class_attrs.MULTIPLIER = param_server.danger_threshold.value
             /\ class_attrs.EXPONENT = param_server.danger_threshold.value
             /\ class_attrs.MULTIPLIER = class_attrs.EXPONENT
        ELSE /\ class_attrs.MULTIPLIER = Ratio(467, 2000)
             /\ class_attrs.EXPONENT = Ratio(1787, 1000)

C19_Witness ==
    /\ p_pc = "loaded" /\ param_server.danger_threshold = Set(Ratio(3, 2))
    /\ param_server.exponent.set /\ class_attrs.EXPONENT = Ratio(3, 2)

\* C20: a sweep that brakes has the stop command as its last message; in
\* test mode the telemetry value and then the forward-drive command of that
\* same sweep come before it.
C20_StopLast ==
    (SweepDone /\ StopEmitted) =>
        /\ published[Len(published)].chan = "car_publisher"
        /\ is_testing =>
              \E i, j \in DOMAIN published :
                  /\ i < j /\ j < Len(published)
                  /\ published[i].chan = "data_logger"
                  /\ published[j].chan = "car_testing_publisher"
                  /\ published[j].msg.speed = TESTING_VELOCITY

C20_Witness ==
    /\ SweepDone /\ is_testing /\ StopEmitted /\ min = Real(417)
    /\ Len(published) = 4

====
